---- MODULE Spec2Model ----
(***************************************************************************)
(* A model of the dataset partitioner (neuralcompress/utils/               *)
(* tpc_dataloader.py) and of the block-composition code                    *)
(* (neuralcompress/models/bcae_blocks.py).                                 *)
(*                                                                         *)
(* A dataset or a view of it is the sequence of the underlying dataset     *)
(* indices (0-based values) it yields, in order.  An optional argument is  *)
(* a sequence of length at most one: <<>> is Python's None.  A tensor      *)
(* element is a record: a finite value, an infinity or NaN.                *)
(***************************************************************************)
EXTENDS Integers, Sequences, FiniteSets, TLC

VARIABLES
    globalGen,  \* state of torch's default (process-wide) random generator
    call,       \* the partitioner call made by the caller, with its outcome
    built,      \* the block-construction call made by the caller, with its outcome
    unit,       \* a constructed TPCResidualBlock (its fields)
    fwd         \* the last forward evaluation of unit

vars == <<globalGen, call, built, unit, fwd>>

----------------------------------------------------------------------------
(* Bounds of the model *)

MaxLen == 3
GenMod == 6
MaxAcqLen == 2
MaxCh == 2
MaxVal == 1

----------------------------------------------------------------------------
(* Optional values *)

None == <<>>
Some(x) == <<x>>
Opt(S) == {None} \cup {Some(x) : x \in S}

----------------------------------------------------------------------------
(* torch's random generator, abstracted: a generator is a state in         *)
(* 0..GenMod-1; random() returns the state and steps it.  manual_seed      *)
(* makes the state a function of the seed alone.                           *)

Gens == 0 .. (GenMod - 1)
ManualSeed(seed) == seed % GenMod
NextRandom(g) == (g + 1) % GenMod

\* torch.randperm(n, generator): Fisher-Yates over 0..n-1, one random()
\* per position; returns the permutation and the generator's state after.
RECURSIVE FisherYates(_, _, _)
FisherYates(r, i, g) ==
    IF i >= Len(r) - 1
    THEN [perm |-> r, gen |-> g]
    ELSE LET z == g % (Len(r) - i)
             a == r[i + 1]
             b == r[i + z + 1]
             r2 == [r EXCEPT ![i + 1] = b, ![i + z + 1] = a]
         IN  FisherYates(r2, i + 1, NextRandom(g))

Arange(a, b) == [k \in 1..(b - a) |-> a + k - 1]

RandPerm(n, g) == FisherYates(Arange(0, n), 0, g)

\* Line 29: the generator a shuffled draw uses.  No seed: the default
\* generator (shared, advanced by the draw).  A seed: a fresh generator
\* seeded for this call alone.
GeneratorShared(seed, g) == [state |-> g, shared |-> TRUE]
Generator(seed, g) ==
    IF seed = None
    THEN [state |-> g, shared |-> TRUE]
    ELSE [state |-> ManualSeed(seed[1]), shared |-> FALSE]

----------------------------------------------------------------------------
(* Datasets, views and loaders *)

Dataset(n) == Arange(0, n)

\* torch.utils.data.Subset(view, indices): element k is view[indices[k]]
Subset(view, indices) == [k \in 1..Len(indices) |-> view[indices[k] + 1]]

DataLoader(dataset, batch_size) == [dataset |-> dataset, batch_size |-> batch_size]

\* A manifest path: the file's name and its content, None when the file does
\* not exist, else Some(number of examples it lists).
Manifest(name, content) == [name |-> name, content |-> content]
Exists(manifest) == manifest.content # None

\* DatasetTPC3d(manifest): the reader of a manifest file; it cannot read a
\* file that does not exist.
DatasetTPC3d(manifest) ==
    IF ~Exists(manifest)
    THEN [err |-> "ReadError", data |-> <<>>]
    ELSE [err |-> "", data |-> Dataset(manifest.content[1])]

----------------------------------------------------------------------------
(* subsample_dataset *)

SampleSzOrLenClamped(dataset, sample_sz) ==
    IF sample_sz = None THEN Len(dataset)
    ELSE IF sample_sz[1] < 0 THEN 0
    ELSE IF sample_sz[1] > Len(dataset) THEN Len(dataset)
    ELSE sample_sz[1]
\* lines 23-24
SampleSzOrLen(dataset, sample_sz) ==
    IF sample_sz = None THEN Len(dataset) ELSE sample_sz[1]

\* lines 14-35.  g is the default generator's state at the call; gen is its
\* state at the return.
subsample_dataset(dataset, sample_sz, shuffle, seed, g) ==
    LET sz == SampleSzOrLen(dataset, sample_sz)
        n == Len(dataset)
    IN  IF ~(0 <= sz /\ sz <= n)
        THEN [err |-> "SizeOutOfRange", view |-> <<>>, gen |-> g]
        ELSE IF shuffle
        THEN LET gen == Generator(seed, g)
                 rp == RandPerm(n, gen.state)
             IN  [err |-> "",
                  view |-> Subset(dataset, SubSeq(rp.perm, 1, sz)),
                  gen |-> IF gen.shared THEN rp.gen ELSE g]
        ELSE [err |-> "", view |-> Subset(dataset, Arange(0, sz)), gen |-> g]

\* One call of subsample_dataset, as the functions below record it.
Draw(n, sample_sz, shuffle, seed) ==
    [len |-> n, size |-> sample_sz, shuffle |-> shuffle, seed |-> seed]

\* The result of a function that fails: no loader; what it read and drew
\* before failing; the default generator as the failure left it.
Fail(err, g, reads, draws) ==
    [err |-> err, loaders |-> <<>>, gen |-> g, reads |-> reads, draws |-> draws,
     sizes |-> <<>>, superset |-> <<>>]

\* lines 38-55
get_tpc_test_dataloader(manifest, batch_size, test_sz, shuffle, seed, g) ==
    LET ds == DatasetTPC3d(manifest)
        sub == subsample_dataset(ds.data, test_sz, shuffle, seed, g)
        draw == Draw(Len(ds.data), test_sz, shuffle, seed)
    IN  IF ds.err # ""
        THEN Fail(ds.err, g, <<>>, <<>>)
        ELSE IF sub.err # ""
        THEN Fail(sub.err, sub.gen, <<manifest.name>>, <<draw>>)
        ELSE [err |-> "", loaders |-> <<DataLoader(sub.view, batch_size)>>,
              gen |-> sub.gen, reads |-> <<manifest.name>>, draws |-> <<draw>>,
              sizes |-> <<>>, superset |-> sub.view]

----------------------------------------------------------------------------
(* get_tpc_train_valid_dataloaders *)

\* Python's int(a / b) for integers a, b with b # 0: the quotient truncated
\* toward zero.
TruncDiv(a, b) ==
    IF b < 0
    THEN (IF -a >= 0 THEN (-a) \div (-b) ELSE -(a \div (-b)))
    ELSE (IF a >= 0 THEN a \div b ELSE -((-a) \div b))

\* A valid_ratio is None or Some(<<p, q>>), the rational p/q with q > 0 (every
\* value used is a dyadic rational, which a float holds exactly).
Num(valid_ratio) == valid_ratio[1][1]
Den(valid_ratio) == valid_ratio[1][2]

\* lines 71-74: the assertion on the calling convention
ArgsAccepted(train_sz, valid_sz, valid_ratio) ==
    \/ (train_sz # None /\ valid_sz # None)
    \/ (train_sz = None /\ valid_sz = None /\ valid_ratio # None)

\* line 79: int(len(dataset) / (1 + valid_ratio)), with 1 + p/q = (q + p)/q
RatioTrainSzRound(n, valid_ratio) ==
    TruncDiv(2 * n * Den(valid_ratio) + Den(valid_ratio) + Num(valid_ratio),
             2 * (Den(valid_ratio) + Num(valid_ratio)))
RatioTrainSz(n, valid_ratio) ==
    TruncDiv(n * Den(valid_ratio), Den(valid_ratio) + Num(valid_ratio))

\* lines 78-80: the sizes in effect at the subsample (those printed)
EffectiveSizes(n, train_sz, valid_sz, valid_ratio) ==
    IF valid_ratio # None
    THEN <<RatioTrainSz(n, valid_ratio), n - RatioTrainSz(n, valid_ratio)>>
    ELSE <<train_sz[1], valid_sz[1]>>

\* lines 92-93: the two views of the subsampled superset.  torch.arange(a, b)
\* raises when b < a; a Subset is built lazily, so an index past the end of
\* the superset is not noticed when the view is made.
SplitViewsSwapped(superset, train_sz) ==
    IF train_sz < 0 \/ Len(superset) < train_sz
    THEN [err |-> "RuntimeError", train |-> <<>>, valid |-> <<>>]
    ELSE [err |-> "",
          train |-> Subset(superset, Arange(Len(superset) - train_sz, Len(superset))),
          valid |-> Subset(superset, Arange(0, Len(superset) - train_sz))]
SplitViews(superset, train_sz) ==
    IF train_sz < 0 \/ Len(superset) < train_sz
    THEN [err |-> "RuntimeError", train |-> <<>>, valid |-> <<>>]
    ELSE [err |-> "",
          train |-> Subset(superset, Arange(0, train_sz)),
          valid |-> Subset(superset, Arange(train_sz, Len(superset)))]

\* lines 58-97
get_tpc_train_valid_dataloaders(train_manifest, batch_size, train_sz, valid_sz, valid_ratio, shuffle, seed, g) ==
    LET ds == DatasetTPC3d(train_manifest)
        n == Len(ds.data)
        sizes == EffectiveSizes(n, train_sz, valid_sz, valid_ratio)
        sub == subsample_dataset(ds.data, Some(sizes[1] + sizes[2]), shuffle, seed, g)
        draw == Draw(n, Some(sizes[1] + sizes[2]), shuffle, seed)
        split == SplitViews(sub.view, sizes[1])
    IN  IF ~ArgsAccepted(train_sz, valid_sz, valid_ratio)
        THEN Fail("BadArguments", g, <<>>, <<>>)
        ELSE IF ds.err # ""
        THEN Fail(ds.err, g, <<>>, <<>>)
        ELSE IF valid_ratio # None /\ Den(valid_ratio) + Num(valid_ratio) = 0
        THEN Fail("ZeroDivisionError", g, <<train_manifest.name>>, <<>>)
        ELSE IF sub.err # ""
        THEN Fail(sub.err, sub.gen, <<train_manifest.name>>, <<draw>>)
        ELSE IF split.err # ""
        THEN Fail(split.err, sub.gen, <<train_manifest.name>>, <<draw>>)
        ELSE [err |-> "",
              loaders |-> <<DataLoader(split.train, batch_size),
                            DataLoader(split.valid, batch_size)>>,
              gen |-> sub.gen, reads |-> <<train_manifest.name>>,
              draws |-> <<draw>>, sizes |-> sizes, superset |-> sub.view]

----------------------------------------------------------------------------
(* get_tpc_dataloaders *)

\* lines 121-122, 134-135: the one shuffle and the one seed of the call go to
\* the test draw and to the train and valid draw alike
TestSeedNone(seed) == None
TestSeed(seed) == seed
TrainValidSeed(seed) == seed

\* line 115: the assertion before the test loader
TestManifestAsserted(test_manifest, train_manifest) == Exists(test_manifest)

\* line 126: the assertion before the train and valid loaders; it tests
\* test_manifest.exists() although its message names train_manifest
TrainManifestAsserted(test_manifest, train_manifest) == Exists(test_manifest)

\* lines 101-137.  manifest_path is the pair of files test.txt, train.txt.
get_tpc_dataloaders(manifest_path, batch_size, train_sz, valid_sz, valid_ratio, test_sz, shuffle, seed, g) ==
    LET test_manifest == Manifest("test.txt", manifest_path.test)
        train_manifest == Manifest("train.txt", manifest_path.train)
        test == get_tpc_test_dataloader(test_manifest, batch_size, test_sz,
                                        shuffle, TestSeed(seed), g)
        tv == get_tpc_train_valid_dataloaders(train_manifest, batch_size, train_sz,
                                              valid_sz, valid_ratio, shuffle,
                                              TrainValidSeed(seed), test.gen)
    IN  IF ~TestManifestAsserted(test_manifest, train_manifest)
        THEN Fail("ManifestNotFound", g, <<>>, <<>>)
        ELSE IF test.err # ""
        THEN Fail(test.err, test.gen, test.reads, test.draws)
        ELSE IF ~TrainManifestAsserted(test_manifest, train_manifest)
        THEN Fail("ManifestNotFound", test.gen, test.reads, test.draws)
        ELSE IF tv.err # ""
        THEN Fail(tv.err, tv.gen, test.reads \o tv.reads, test.draws \o tv.draws)
        ELSE [err |-> "", loaders |-> tv.loaders \o test.loaders, gen |-> tv.gen,
              reads |-> test.reads \o tv.reads, draws |-> test.draws \o tv.draws,
              sizes |-> tv.sizes, superset |-> tv.superset]

----------------------------------------------------------------------------
(* The partitioner's calls *)

Lens == 0 .. MaxLen
Sizes == Opt(-1 .. (MaxLen + 1))
Seeds == Opt({0, 1, 5})
SubSeeds == Opt({0, 1})
Ratios == Opt({<<0, 1>>, <<1, 4>>, <<1, 1>>, <<-1, 2>>, <<-1, 1>>, <<-3, 1>>})
BatchSizes == {32}

AcqLens == 0 .. MaxAcqLen
AcqSizes == Opt(0 .. MaxAcqLen)
AcqSeeds == Opt({0, 1})
AcqRatios == Opt({<<1, 1>>})

NoCall == [op |-> "none"]
NoBuilt == [op |-> "none"]
NoUnit == [made |-> FALSE]
NoFwd == [done |-> FALSE]

\* A caller subsamples a dataset of n examples; it may do so again.  repeat
\* tells that the call before this one had the same arguments.
SubsampleDataset(n, sample_sz, shuffle, seed) ==
    \E r \in {subsample_dataset(Dataset(n), sample_sz, shuffle, seed, globalGen)} :
        /\ call' = [op |-> "subsample_dataset", len |-> n, sample_sz |-> sample_sz,
                    shuffle |-> shuffle, seed |-> seed, gen |-> globalGen,
                    err |-> r.err, view |-> r.view,
                    repeat |-> /\ call.op = "subsample_dataset"
                               /\ call.len = n
                               /\ call.sample_sz = sample_sz
                               /\ call.shuffle = shuffle
                               /\ call.seed = seed]
        /\ globalGen' = r.gen
        /\ UNCHANGED <<built, unit, fwd>>

\* The driver asks for a test loader, once.
GetTpcTestDataloader(content, batch_size, test_sz, shuffle, seed) ==
    \E r \in {get_tpc_test_dataloader(Manifest("test.txt", content), batch_size,
                                     test_sz, shuffle, seed, globalGen)} :
        /\ call' = [op |-> "get_tpc_test_dataloader", content |-> content,
                    batch_size |-> batch_size, test_sz |-> test_sz,
                    shuffle |-> shuffle, seed |-> seed, gen |-> globalGen, res |-> r]
        /\ globalGen' = r.gen
        /\ UNCHANGED <<built, unit, fwd>>

\* The driver asks for the train and valid loaders, once.
GetTpcTrainValidDataloaders(content, batch_size, train_sz, valid_sz, valid_ratio, shuffle, seed) ==
    \E r \in {get_tpc_train_valid_dataloaders(Manifest("train.txt", content),
                 batch_size, train_sz, valid_sz, valid_ratio, shuffle, seed,
                 globalGen)} :
        /\ call' = [op |-> "get_tpc_train_valid_dataloaders", content |-> content,
                    batch_size |-> batch_size, train_sz |-> train_sz,
                    valid_sz |-> valid_sz, valid_ratio |-> valid_ratio,
                    shuffle |-> shuffle, seed |-> seed, gen |-> globalGen, res |-> r]
        /\ globalGen' = r.gen
        /\ UNCHANGED <<built, unit, fwd>>

\* The driver asks for the three loaders, once.
GetTpcDataloaders(manifest_path, batch_size, train_sz, valid_sz, valid_ratio, test_sz, shuffle, seed) ==
    \E r \in {get_tpc_dataloaders(manifest_path, batch_size, train_sz, valid_sz,
                                 valid_ratio, test_sz, shuffle, seed, globalGen)} :
        /\ call' = [op |-> "get_tpc_dataloaders", manifest_path |-> manifest_path,
                    batch_size |-> batch_size, train_sz |-> train_sz,
                    valid_sz |-> valid_sz, valid_ratio |-> valid_ratio,
                    test_sz |-> test_sz, shuffle |-> shuffle, seed |-> seed,
                    gen |-> globalGen, res |-> r]
        /\ globalGen' = r.gen
        /\ UNCHANGED <<built, unit, fwd>>

Subsampling ==
    \E n \in Lens, sample_sz \in Sizes, shuffle \in BOOLEAN, seed \in SubSeeds :
        SubsampleDataset(n, sample_sz, shuffle, seed)

TestLoading ==
    /\ call.op = "none"
    /\ \E content \in Opt(Lens), batch_size \in BatchSizes, test_sz \in Sizes,
       shuffle \in BOOLEAN, seed \in Seeds :
        GetTpcTestDataloader(content, batch_size, test_sz, shuffle, seed)

Splitting ==
    /\ call.op = "none"
    /\ \E content \in Opt(Lens), batch_size \in BatchSizes, train_sz \in Sizes,
       valid_sz \in Sizes, valid_ratio \in Ratios, shuffle \in BOOLEAN,
       seed \in Seeds :
        GetTpcTrainValidDataloaders(content, batch_size, train_sz, valid_sz,
                                    valid_ratio, shuffle, seed)

Acquiring ==
    /\ call.op = "none"
    /\ \E test \in Opt(AcqLens), train \in Opt(AcqLens), batch_size \in BatchSizes,
       train_sz \in AcqSizes, valid_sz \in AcqSizes, valid_ratio \in AcqRatios,
       test_sz \in AcqSizes, shuffle \in BOOLEAN, seed \in AcqSeeds :
        GetTpcDataloaders([test |-> test, train |-> train], batch_size, train_sz,
                          valid_sz, valid_ratio, test_sz, shuffle, seed)

----------------------------------------------------------------------------
(* Layers and pipelines (nn.Sequential: the sequence of its layers) *)

Conv3d(in_channels, out_channels, kernel_size, stride, padding) ==
    [kind |-> "Conv3d", in_channels |-> in_channels, out_channels |-> out_channels,
     kernel_size |-> kernel_size, stride |-> stride, padding |-> padding]

ConvTranspose3d(in_channels, out_channels, kernel_size, stride, padding) ==
    [kind |-> "ConvTranspose3d", in_channels |-> in_channels,
     out_channels |-> out_channels, kernel_size |-> kernel_size,
     stride |-> stride, padding |-> padding]

BatchNorm3d(num_features) == [kind |-> "BatchNorm3d", num_features |-> num_features]

\* lines 26-29: the operator of a block type, built from block_args
Layer(block_type, block_args) ==
    IF block_type = "conv"
    THEN Conv3d(block_args.in_channels, block_args.out_channels,
                block_args.kernel_size, block_args.stride, block_args.padding)
    ELSE ConvTranspose3d(block_args.in_channels, block_args.out_channels,
                         block_args.kernel_size, block_args.stride,
                         block_args.padding)

\* lines 9-31
single_block(block_type, block_args, activ, norm) ==
    IF block_type \notin {"conv", "deconv"}
    THEN [err |-> "InvalidBlockType", seq |-> <<>>]
    ELSE [err |-> "", seq |-> <<Layer(block_type, block_args), norm, activ>>]

\* lines 55-62: the second operator of a double block
Block2(block_type, block_args) ==
    Conv3d(block_args.out_channels, block_args.out_channels, 3, 1, 1)

\* lines 34-65
double_block(block_type, block_args, activ, norm) ==
    LET block_1 == single_block(block_type, block_args, activ, norm)
    IN  IF block_1.err # ""
        THEN block_1
        ELSE [err |-> "",
              seq |-> block_1.seq \o <<Block2(block_type, block_args)>>
                        \o <<BatchNorm3d(block_args.out_channels)>>]

----------------------------------------------------------------------------
(* Tensor elements: IEEE floats, finite values kept exact *)

Fin(v) == [k |-> "fin", v |-> v]
Inf(sign) == [k |-> "inf", v |-> sign]
NaN == [k |-> "nan", v |-> 0]

Sign(v) == IF v > 0 THEN 1 ELSE IF v < 0 THEN -1 ELSE 0

Mul(a, b) ==
    IF a.k = "nan" \/ b.k = "nan" THEN NaN
    ELSE IF a.k = "inf" \/ b.k = "inf"
    THEN (IF a.v = 0 \/ b.v = 0 THEN NaN ELSE Inf(Sign(a.v) * Sign(b.v)))
    ELSE Fin(a.v * b.v)

Add(a, b) ==
    IF a.k = "nan" \/ b.k = "nan" THEN NaN
    ELSE IF a.k = "inf" /\ b.k = "inf"
    THEN (IF a.v = b.v THEN a ELSE NaN)
    ELSE IF a.k = "inf" THEN a
    ELSE IF b.k = "inf" THEN b
    ELSE Fin(a.v + b.v)

\* scalar * tensor and tensor + tensor, elementwise
ScalarMul(alpha, t) == [i \in 1..Len(t) |-> Mul(alpha, t[i])]
TensorAdd(t, u) == [i \in 1..Len(t) |-> Add(t[i], u[i])]

ReLU(a) ==
    IF a.k = "nan" THEN NaN
    ELSE IF a.k = "inf" THEN (IF a.v > 0 THEN a ELSE Fin(0))
    ELSE (IF a.v > 0 THEN a ELSE Fin(0))

\* an activation module applied to a tensor
Activ(activ, t) ==
    IF activ.kind = "ReLU" THEN [i \in 1..Len(t) |-> ReLU(t[i])] ELSE t

IsFinite(t) == \A i \in 1..Len(t) : t[i].k = "fin"

----------------------------------------------------------------------------
(* TPCResidualBlock *)

\* lines 90-95: the two assertions of the constructor
ShapesAssertedInOnly(main_block, side_block) ==
    main_block[1].in_channels = side_block[1].in_channels
ShapesAsserted(main_block, side_block) ==
    /\ main_block[1].in_channels = side_block[1].in_channels
    /\ main_block[1].out_channels = side_block[1].out_channels

\* lines 102-105: a trainable scalar starting at zero, or the constant 1
RezeroAlpha(rezero) ==
    IF rezero
    THEN [param |-> TRUE, val |-> Fin(0)]
    ELSE [param |-> FALSE, val |-> Fin(1)]

\* lines 74-105
TPCResidualBlock(main_block, side_block, activ, rezero) ==
    IF ~ShapesAsserted(main_block, side_block)
    THEN [err |-> "ShapeMismatch", unit |-> [made |-> FALSE]]
    ELSE [err |-> "",
          unit |-> [made |-> TRUE, main_block |-> main_block,
                    side_block |-> side_block, activ |-> activ,
                    rezero_alpha |-> RezeroAlpha(rezero), trained |-> FALSE]]

\* lines 114-117, given what the two paths return for the input
forwardGateOnSide(self, x_side, x_main) ==
    Activ(self.activ, TensorAdd(ScalarMul(self.rezero_alpha.val, x_side), x_main))
forward(self, x_side, x_main) ==
    Activ(self.activ, TensorAdd(ScalarMul(self.rezero_alpha.val, x_main), x_side))

\* lines 120-129
encoder_residual_block(conv_args, activ, rezero) ==
    TPCResidualBlock(
        double_block("conv", conv_args, activ,
                     BatchNorm3d(conv_args.out_channels)).seq,
        single_block("conv", conv_args, activ,
                     BatchNorm3d(conv_args.out_channels)).seq,
        activ, rezero)

\* lines 131-140
decoder_residual_block(deconv_args, activ, rezero) ==
    TPCResidualBlock(
        double_block("deconv", deconv_args, activ,
                     BatchNorm3d(deconv_args.out_channels)).seq,
        single_block("deconv", deconv_args, activ,
                     BatchNorm3d(deconv_args.out_channels)).seq,
        activ, rezero)

----------------------------------------------------------------------------
(* The block-composition calls *)

Channels == 1 .. MaxCh
\* <<kernel_size, stride, padding>>
Geometries == {<<3, 1, 1>>, <<4, 2, 1>>}
BlockArgs ==
    {[in_channels |-> i, out_channels |-> o, kernel_size |-> g[1],
      stride |-> g[2], padding |-> g[3]] :
        i \in Channels, o \in Channels, g \in Geometries}
BlockTypes == {"conv", "deconv", "pool"}
Activs == {[kind |-> "ReLU"], [kind |-> "Identity"]}
Norms == {BatchNorm3d(c) : c \in Channels}

\* the pipelines single_block and double_block build with one activation
Pipelines(activ) ==
    {single_block(t, a, activ, BatchNorm3d(a.out_channels)).seq :
        t \in {"conv", "deconv"}, a \in BlockArgs}
    \cup
    {double_block(t, a, activ, BatchNorm3d(a.out_channels)).seq :
        t \in {"conv", "deconv"}, a \in BlockArgs}

SingleBlock(block_type, block_args, activ, norm) ==
    \E r \in {single_block(block_type, block_args, activ, norm)} :
        /\ built' = [op |-> "single_block", block_type |-> block_type,
                     block_args |-> block_args, activ |-> activ, norm |-> norm,
                     err |-> r.err, seq |-> r.seq]
        /\ UNCHANGED <<globalGen, call, unit, fwd>>

DoubleBlock(block_type, block_args, activ, norm) ==
    \E r \in {double_block(block_type, block_args, activ, norm)} :
        /\ built' = [op |-> "double_block", block_type |-> block_type,
                     block_args |-> block_args, activ |-> activ, norm |-> norm,
                     err |-> r.err, seq |-> r.seq]
        /\ UNCHANGED <<globalGen, call, unit, fwd>>

NewTPCResidualBlock(main_block, side_block, activ, rezero) ==
    \E r \in {TPCResidualBlock(main_block, side_block, activ, rezero)} :
        /\ built' = [op |-> "TPCResidualBlock", main_block |-> main_block,
                     side_block |-> side_block, activ |-> activ,
                     rezero |-> rezero, err |-> r.err]
        /\ unit' = r.unit
        /\ UNCHANGED <<globalGen, call, fwd>>

EncoderResidualBlock(conv_args, activ, rezero) ==
    \E r \in {encoder_residual_block(conv_args, activ, rezero)} :
        /\ built' = [op |-> "encoder_residual_block", block_args |-> conv_args,
                     activ |-> activ, rezero |-> rezero, err |-> r.err]
        /\ unit' = r.unit
        /\ UNCHANGED <<globalGen, call, fwd>>

DecoderResidualBlock(deconv_args, activ, rezero) ==
    \E r \in {decoder_residual_block(deconv_args, activ, rezero)} :
        /\ built' = [op |-> "decoder_residual_block", block_args |-> deconv_args,
                     activ |-> activ, rezero |-> rezero, err |-> r.err]
        /\ unit' = r.unit
        /\ UNCHANGED <<globalGen, call, fwd>>

Composing ==
    /\ built.op = "none"
    /\ \/ \E t \in BlockTypes, a \in BlockArgs, activ \in Activs, norm \in Norms :
            SingleBlock(t, a, activ, norm)
       \/ \E t \in BlockTypes, a \in BlockArgs, activ \in Activs, norm \in Norms :
            DoubleBlock(t, a, activ, norm)
       \/ \E activ \in Activs, rezero \in BOOLEAN :
            \E main_block \in Pipelines(activ), side_block \in Pipelines(activ) :
                NewTPCResidualBlock(main_block, side_block, activ, rezero)
       \/ \E a \in BlockArgs, activ \in Activs, rezero \in BOOLEAN :
            EncoderResidualBlock(a, activ, rezero)
       \/ \E a \in BlockArgs, activ \in Activs, rezero \in BOOLEAN :
            DecoderResidualBlock(a, activ, rezero)

----------------------------------------------------------------------------
(* Forward evaluation and training of a constructed unit *)

FinVals == (-MaxVal) .. MaxVal
Vals == {Fin(v) : v \in FinVals} \cup {NaN, Inf(1), Inf(-1)}
\* a tensor of two elements
Tensors == {<<a, b>> : a \in Vals, b \in Vals}

\* One forward call on some input: x_side and x_main are what the side path
\* and the main path (the numeric engine) return for it.
Forward(x_side, x_main) ==
    /\ fwd' = [done |-> TRUE, x_side |-> x_side, x_main |-> x_main,
               alpha |-> unit.rezero_alpha,
               out |-> forward(unit, x_side, x_main)]
    /\ UNCHANGED <<globalGen, call, built, unit>>

\* The training loop's optimizer step after a forward call: it may move a
\* registered parameter, and nothing else of the unit.
TrainStep(v) ==
    /\ unit' = [unit EXCEPT
                  !.rezero_alpha = IF @.param THEN [@ EXCEPT !.val = Fin(v)] ELSE @,
                  !.trained = TRUE]
    /\ fwd' = NoFwd
    /\ UNCHANGED <<globalGen, call, built>>

\* The training loop: a forward call, then the optimizer's step, again and again.
Evaluating ==
    \/ /\ unit.made
       /\ ~fwd.done
       /\ \E x_side \in Tensors, x_main \in Tensors : Forward(x_side, x_main)
    \/ /\ unit.made
       /\ fwd.done
       /\ \E v \in FinVals : TrainStep(v)

\* the block arguments of the units that are evaluated
StageArgs ==
    {[in_channels |-> 1, out_channels |-> 2, kernel_size |-> 4, stride |-> 2,
      padding |-> 1]}

Init ==
    /\ globalGen \in Gens
    /\ call = NoCall
    /\ built = NoBuilt
    /\ unit = NoUnit
    /\ fwd = NoFwd

InitBlocks ==
    /\ globalGen = 0
    /\ call = NoCall
    /\ built = NoBuilt
    /\ unit = NoUnit
    /\ fwd = NoFwd

\* a unit just constructed by one of the two stage factories
InitForward ==
    /\ globalGen = 0
    /\ call = NoCall
    /\ \E a \in StageArgs, activ \in Activs, rezero \in BOOLEAN :
         \/ /\ built = [op |-> "encoder_residual_block", block_args |-> a,
                        activ |-> activ, rezero |-> rezero, err |-> ""]
            /\ unit = encoder_residual_block(a, activ, rezero).unit
         \/ /\ built = [op |-> "decoder_residual_block", block_args |-> a,
                        activ |-> activ, rezero |-> rezero, err |-> ""]
            /\ unit = decoder_residual_block(a, activ, rezero).unit
    /\ fwd = NoFwd

SpecSubsample == Init /\ [][Subsampling]_vars
SpecSplit == Init /\ [][TestLoading \/ Splitting]_vars
SpecAcquire == Init /\ [][Acquiring]_vars
SpecBlocks == InitBlocks /\ [][Composing]_vars
SpecForward == InitForward /\ [][Evaluating]_vars

----------------------------------------------------------------------------
(* Properties *)

Range(seq) == {seq[k] : k \in 1..Len(seq)}
Distinct(seq) == Cardinality(Range(seq)) = Len(seq)

IsSplit == call.op = "get_tpc_train_valid_dataloaders"
Returned == call.res.err = ""
TrainView == call.res.loaders[1].dataset
ValidView == call.res.loaders[2].dataset

\* C1: a call of get_tpc_train_valid_dataloaders that returns normally with
\* train_sz and valid_sz supplied, whatever shuffle, seed and valid_ratio are,
\* yields disjoint train and valid views of exactly train_sz and valid_sz
\* indices, whose union is the subsampled superset of train_sz + valid_sz
\* indices.
C1_ExactSizes ==
    (IsSplit /\ Returned /\ call.train_sz # None /\ call.valid_sz # None) =>
        /\ Len(TrainView) = call.train_sz[1]
        /\ Len(ValidView) = call.valid_sz[1]
        /\ Range(TrainView) \cap Range(ValidView) = {}
        /\ Range(TrainView) \cup Range(ValidView) = Range(call.res.superset)
        /\ Cardinality(Range(call.res.superset)) = call.train_sz[1] + call.valid_sz[1]

\* C2: subsample_dataset fails with SizeOutOfRange, returning no view, for
\* every size below 0 and every size above len(dataset); for every size from
\* 0 to len(dataset) it returns a view of exactly size pairwise distinct
\* indices of the dataset, shuffled or not.
C2_SizeContract ==
    (call.op = "subsample_dataset" /\ call.sample_sz # None) =>
        IF call.sample_sz[1] < 0 \/ call.sample_sz[1] > call.len
        THEN call.err = "SizeOutOfRange" /\ call.view = <<>>
        ELSE /\ call.err = ""
             /\ Len(call.view) = call.sample_sz[1]
             /\ Distinct(call.view)
             /\ Range(call.view) \subseteq 0 .. (call.len - 1)

\* C2's case: a size above the dataset's length was refused.
C2_Witness ==
    /\ call.op = "subsample_dataset"
    /\ call.sample_sz # None
    /\ call.sample_sz[1] = call.len + 1
    /\ call.len >= 2
    /\ call.shuffle
    /\ call.err = "SizeOutOfRange"

\* C3: get_tpc_dataloaders fails with ManifestNotFound whenever train.txt or
\* test.txt is absent from manifest_path, and then reads no dataset and
\* returns no loader.
C3_ManifestNotFound ==
    (/\ call.op = "get_tpc_dataloaders"
     /\ (call.manifest_path.train = None \/ call.manifest_path.test = None)) =>
        /\ call.res.err = "ManifestNotFound"
        /\ call.res.reads = <<>>
        /\ call.res.loaders = <<>>

\* C4: a shuffled subsample_dataset call with a seed, on a dataset of the
\* same length and with the same size and seed as the call before it, returns
\* what that call returned, whatever the default generator's state is.
C4_SeededDeterminism ==
    [][(/\ call.op = "subsample_dataset"
        /\ call'.op = "subsample_dataset"
        /\ call'.shuffle
        /\ call'.seed # None
        /\ call'.len = call.len
        /\ call'.sample_sz = call.sample_sz
        /\ call'.shuffle = call.shuffle
        /\ call'.seed = call.seed)
       => (call'.err = call.err /\ call'.view = call.view)]_vars

\* C4's case: a seeded shuffled draw was repeated while the default
\* generator stood elsewhere than the seed puts a generator, and the draw
\* did reorder the indices.
C4_Witness ==
    /\ call.op = "subsample_dataset"
    /\ call.repeat
    /\ call.shuffle
    /\ call.seed # None
    /\ call.gen # ManualSeed(call.seed[1])
    /\ call.err = ""
    /\ Len(call.view) >= 2
    /\ call.view # Arange(0, Len(call.view))

\* C5: with valid_ratio >= 0 alone, on a dataset of N examples, train_sz is
\* floor(N / (1 + valid_ratio)) and valid_sz is N - train_sz, fixed before
\* the one subsample of all N examples; the two views hold train_sz and
\* valid_sz indices and together hold every index of the dataset once.
\* (N = 100 and valid_ratio = 1/4 give 80 and 20.)
C5_RatioSizes ==
    /\ EffectiveSizes(100, None, None, Some(<<1, 4>>)) = <<80, 20>>
    /\ (/\ IsSplit
        /\ call.content # None
        /\ call.train_sz = None
        /\ call.valid_sz = None
        /\ call.valid_ratio # None
        /\ Num(call.valid_ratio) >= 0) =>
           LET N == call.content[1]
               p == Num(call.valid_ratio)
               q == Den(call.valid_ratio)
               train_size == (N * q) \div (q + p)
           IN  /\ Returned
               /\ call.res.sizes = <<train_size, N - train_size>>
               /\ call.res.draws = <<Draw(N, Some(N), call.shuffle, call.seed)>>
               /\ Len(TrainView) = train_size
               /\ Len(ValidView) = N - train_size
               /\ Distinct(TrainView \o ValidView)
               /\ Range(TrainView \o ValidView) = 0 .. (N - 1)

\* C5's case: a ratio of 1/4 split three shuffled examples into two and one.
C5_Witness ==
    /\ IsSplit
    /\ call.content = Some(3)
    /\ call.train_sz = None
    /\ call.valid_sz = None
    /\ call.valid_ratio = Some(<<1, 4>>)
    /\ call.shuffle
    /\ Returned
    /\ Len(TrainView) = 2
    /\ Len(ValidView) = 1

\* C6: constructing a TPCResidualBlock succeeds exactly when the first
\* operators of main_block and side_block have equal in_channels and equal
\* out_channels; otherwise it fails with ShapeMismatch in the constructor,
\* before any forward call, and no unit is made.
C6_ShapeCheck ==
    (built.op = "TPCResidualBlock") =>
        IF /\ built.main_block[1].in_channels = built.side_block[1].in_channels
           /\ built.main_block[1].out_channels = built.side_block[1].out_channels
        THEN /\ built.err = ""
             /\ unit.made
             /\ unit.main_block = built.main_block
             /\ unit.side_block = built.side_block
        ELSE /\ built.err = "ShapeMismatch"
             /\ ~unit.made
             /\ ~fwd.done

\* C6's case: blocks that agree on in_channels and differ in out_channels
\* were refused.
C6_Witness ==
    /\ built.op = "TPCResidualBlock"
    /\ built.main_block[1].in_channels = built.side_block[1].in_channels
    /\ built.main_block[1].out_channels # built.side_block[1].out_channels
    /\ built.err = "ShapeMismatch"
    /\ ~unit.made

\* C7 as stated: for every input, forward of a rezero unit no training step
\* has touched returns activation(side_path(input)) exactly, alpha being 0;
\* forward of a unit built without rezero returns
\* activation(main_path(input) + side_path(input)), alpha being the constant
\* 1; forward never changes alpha.
C7_ForwardAnyInput ==
    fwd.done =>
        /\ (unit.rezero_alpha.param /\ ~unit.trained) =>
               /\ fwd.alpha.val = Fin(0)
               /\ fwd.out = Activ(unit.activ, fwd.x_side)
        /\ ~unit.rezero_alpha.param =>
               /\ fwd.alpha.val = Fin(1)
               /\ fwd.out = Activ(unit.activ, TensorAdd(fwd.x_main, fwd.x_side))
        /\ unit.rezero_alpha = fwd.alpha

\* C7, amended: the same, the rezero case for every input on which the main
\* path returns finite values only (0 * inf and 0 * NaN are NaN).
C7_ForwardFiniteMain ==
    fwd.done =>
        /\ (unit.rezero_alpha.param /\ ~unit.trained) =>
               /\ fwd.alpha.val = Fin(0)
               /\ IsFinite(fwd.x_main) =>
                      fwd.out = Activ(unit.activ, fwd.x_side)
        /\ ~unit.rezero_alpha.param =>
               /\ fwd.alpha.val = Fin(1)
               /\ fwd.out = Activ(unit.activ, TensorAdd(fwd.x_main, fwd.x_side))
        /\ unit.rezero_alpha = fwd.alpha

\* C7's case: a fresh rezero unit evaluated an input on which the main path
\* is finite and not zero, and returned the activation of the side path.
C7_Witness ==
    /\ fwd.done
    /\ unit.rezero_alpha.param
    /\ ~unit.trained
    /\ fwd.x_main = <<Fin(1), Fin(-1)>>
    /\ fwd.x_side = <<Fin(-1), Fin(1)>>
    /\ unit.activ.kind = "ReLU"
    /\ fwd.out = <<Fin(0), Fin(1)>>

\* C8: for both operator families, double_block builds exactly
\* [operator1, normalization1, activation, operator2, normalization2], where
\* operator1 is configured from block_args and operator2 is of operator1's
\* family with kernel 3, stride 1, padding 1 and in_channels = out_channels =
\* block_args' out_channels; no activation follows operator2.
C8_DoubleBlockShape ==
    (built.op = "double_block" /\ built.err = "") =>
        /\ Len(built.seq) = 5
        /\ built.seq[1] = Layer(built.block_type, built.block_args)
        /\ built.seq[2] = built.norm
        /\ built.seq[3] = built.activ
        /\ built.seq[4] =
             Layer(built.block_type,
                   [in_channels |-> built.block_args.out_channels,
                    out_channels |-> built.block_args.out_channels,
                    kernel_size |-> 3, stride |-> 1, padding |-> 1])
        /\ built.seq[5] = BatchNorm3d(built.block_args.out_channels)

\* C9: get_tpc_train_valid_dataloaders makes one subsample of train_sz +
\* valid_sz indices; the train view is its first train_sz indices in their
\* order and the valid view the remaining valid_sz in theirs.  Without
\* shuffle, on a dataset that holds train_sz + valid_sz examples, the views
\* are 0..train_sz-1 and train_sz..train_sz+valid_sz-1 (10 examples, 7 and 3:
\* 0..6 and 7..9).  The sizes are those in effect at the subsample: the
\* arguments when no valid_ratio is given.
C9_PositionalSplit ==
    /\ LET r == get_tpc_train_valid_dataloaders(Manifest("train.txt", Some(10)),
                    32, Some(7), Some(3), None, FALSE, None, 0)
       IN  /\ r.loaders[1].dataset = <<0, 1, 2, 3, 4, 5, 6>>
           /\ r.loaders[2].dataset = <<7, 8, 9>>
    /\ (/\ IsSplit
        /\ call.content # None
        /\ call.valid_ratio = None
        /\ call.train_sz # None
        /\ call.valid_sz # None
        /\ call.train_sz[1] >= 0
        /\ call.valid_sz[1] >= 0
        /\ call.train_sz[1] + call.valid_sz[1] <= call.content[1]) =>
           /\ Returned
           /\ call.res.sizes = <<call.train_sz[1], call.valid_sz[1]>>
    /\ (IsSplit /\ Returned) =>
           LET train_size == call.res.sizes[1]
               valid_size == call.res.sizes[2]
               selected == call.res.superset
           IN  /\ call.res.draws =
                    <<Draw(call.content[1], Some(train_size + valid_size),
                           call.shuffle, call.seed)>>
               /\ Len(selected) = train_size + valid_size
               /\ Distinct(selected)
               /\ TrainView = SubSeq(selected, 1, train_size)
               /\ ValidView = SubSeq(selected, train_size + 1, train_size + valid_size)
               /\ ~call.shuffle =>
                      /\ TrainView = Arange(0, train_size)
                      /\ ValidView = Arange(train_size, train_size + valid_size)

\* C9's case: three shuffled examples, reordered by the draw, split two and
\* one.
C9_Witness ==
    /\ IsSplit
    /\ Returned
    /\ call.valid_ratio = None
    /\ call.shuffle
    /\ call.train_sz = Some(2)
    /\ call.valid_sz = Some(1)
    /\ call.res.superset # Arange(0, 3)
    /\ TrainView = SubSeq(call.res.superset, 1, 2)
    /\ ValidView = SubSeq(call.res.superset, 3, 3)

IsAcquisition == call.op = "get_tpc_dataloaders"

\* what the calls of get_tpc_dataloaders that Acquiring can make return when
\* the default generator is in state g
AcquisitionsFrom(g) ==
    {get_tpc_dataloaders([test |-> test, train |-> train], batch_size, train_sz,
                         valid_sz, valid_ratio, test_sz, shuffle, seed, g) :
        test \in Opt(AcqLens), train \in Opt(AcqLens), batch_size \in BatchSizes,
        train_sz \in AcqSizes, valid_sz \in AcqSizes, valid_ratio \in AcqRatios,
        test_sz \in AcqSizes, shuffle \in BOOLEAN, seed \in AcqSeeds}

\* C10 as stated: in get_tpc_dataloaders the test draw and the train and
\* valid draw each take a seed of their own, so a call can draw the test
\* split with one seed and the train and valid splits with another.
C10_IndependentSeeds ==
    (call.op = "none") =>
        \E r \in AcquisitionsFrom(globalGen) :
            Len(r.draws) = 2 /\ r.draws[1].seed # r.draws[2].seed

\* C10, amended: the two draws take sizes of their own (test_sz; train_sz +
\* valid_sz), which a call can make differ, and share the call's one seed and
\* one shuffle flag.
C10_SharedSeed ==
    /\ (call.op = "none") =>
           \E r \in AcquisitionsFrom(globalGen) :
               Len(r.draws) = 2 /\ r.draws[1].size # r.draws[2].size
    /\ (IsAcquisition /\ Len(call.res.draws) >= 1) =>
           /\ call.res.draws[1].size = call.test_sz
           /\ call.res.draws[1].seed = call.seed
           /\ call.res.draws[1].shuffle = call.shuffle
    /\ (IsAcquisition /\ Len(call.res.draws) = 2) =>
           /\ call.res.draws[2].seed = call.res.draws[1].seed
           /\ call.res.draws[2].shuffle = call.res.draws[1].shuffle
           /\ (call.valid_ratio = None =>
                 call.res.draws[2].size = Some(call.train_sz[1] + call.valid_sz[1]))

\* C10's case: a seeded, shuffled acquisition returned its three loaders,
\* the test draw of one size and the train and valid draw of another.
C10_Witness ==
    /\ IsAcquisition
    /\ Returned
    /\ call.shuffle
    /\ call.seed = Some(1)
    /\ Len(call.res.draws) = 2
    /\ call.res.draws[1].size = Some(1)
    /\ call.res.draws[2].size = Some(2)
    /\ call.res.draws[1].seed = Some(1)
    /\ call.res.draws[2].seed = Some(1)

====
